---- MODULE Spec2Model ----
(***************************************************************************)
(* mav_trajectory_generation::Polynomial (polynomial.h): a polynomial with *)
(* N_ coefficients stored in increasing powers, its derivative            *)
(* coefficients, its evaluation recurrences, baseCoeffsWithTime and the    *)
(* extremum search, over the shared table base_coefficients_.             *)
(*                                                                         *)
(* A double is modelled exactly, as a value a0 + a1*dt + a2*dt^2 + ...     *)
(* with integer a_k and dt a fixed positive time below machine epsilon:    *)
(* the sequence <<a0, a1, ...>> without trailing zeros.  Integers of the   *)
(* sizes used here are exact in a double, so no rounding is modelled.      *)
(***************************************************************************)
EXTENDS Integers, Sequences, FiniteSets, TLC

\* ---------------------------------------------------------------- bounds

\* Coefficients are drawn from -MaxCoeff..MaxCoeff.
MaxCoeff == 1
\* Whole-number times are drawn from -MaxT..MaxT.
MaxT == 2
\* Root sequences handed to findMinMax hold at most MaxRoots roots.
MaxRoots == 1
\* The extremum search is run on polynomials of order 1..MaxMinMaxN.
MaxMinMaxN == 3

\* static constexpr int kMaxN = 12
kMaxN == 12

\* --------------------------------------------------------------- doubles

Max(a, b) == IF a >= b THEN a ELSE b

RECURSIVE Trim(_)
Trim(s) ==
  IF s = <<>> THEN s
  ELSE IF s[Len(s)] = 0 THEN Trim(SubSeq(s, 1, Len(s) - 1))
  ELSE s

\* The double holding the whole number n.
NumOf(n) == IF n = 0 THEN <<>> ELSE <<n>>

\* The double k * dt, below machine epsilon in magnitude.
Tiny(k) == IF k = 0 THEN <<>> ELSE <<0, k>>

Coef(a, k) == IF k <= Len(a) THEN a[k] ELSE 0

NumAdd(a, b) ==
  Trim([k \in 1..Max(Len(a), Len(b)) |-> Coef(a, k) + Coef(b, k)])

NumNeg(a) == [k \in 1..Len(a) |-> 0 - a[k]]

RECURSIVE ConvSum(_, _, _, _)
ConvSum(a, b, k, i) ==
  IF i > Len(a) THEN 0
  ELSE (IF k + 1 - i >= 1 /\ k + 1 - i <= Len(b) THEN a[i] * b[k + 1 - i] ELSE 0)
       + ConvSum(a, b, k, i + 1)

NumMul(a, b) ==
  IF a = <<>> \/ b = <<>> THEN <<>>
  ELSE [k \in 1..(Len(a) + Len(b) - 1) |-> ConvSum(a, b, k, 1)]

\* The sign of a double: that of its lowest-order nonzero part, dt being
\* smaller than every positive whole number.
RECURSIVE SignFrom(_, _)
SignFrom(a, k) ==
  IF k > Len(a) THEN 0
  ELSE IF a[k] > 0 THEN 1
  ELSE IF a[k] < 0 THEN -1
  ELSE SignFrom(a, k + 1)

NumSign(a) == SignFrom(a, 1)

NumLess(a, b) == NumSign(NumAdd(b, NumNeg(a))) > 0

NumLeq(a, b) == NumSign(NumAdd(b, NumNeg(a))) >= 0

NumAbs(a) == IF NumSign(a) < 0 THEN NumNeg(a) ELSE a

\* std::abs(t) < std::numeric_limits<double>::epsilon(): epsilon is 2^-52,
\* so a double is below it exactly when its whole-number part is 0.
BelowEpsilon(t) == Coef(NumAbs(t), 1) = 0

\* ----------------------------------------------------------- basis table

\* j * (j-1) * ... * (j-d+1): the multiplier of t^(j-d) in the d-th
\* derivative of t^j; 0 for j < d.
RECURSIVE FallingFactorial(_, _)
FallingFactorial(j, d) ==
  IF d = 0 THEN 1
  ELSE IF j < d THEN 0
  ELSE j * FallingFactorial(j - 1, d - 1)

\* Eigen::MatrixXd computeBaseCoefficients(int N): the N x N table.
computeBaseCoefficients(N) ==
  [d \in 0..(N - 1) |-> [j \in 0..(N - 1) |-> FallingFactorial(j, d)]]

\* The one static table shared by all polynomials.
base_coefficients_ == computeBaseCoefficients(kMaxN)

\* Eigen's range condition of base_coefficients_.block(startRow, startCol,
\* blockRows, blockCols), asserted when Eigen's assertions are compiled in.
BlockInRange(startRow, startCol, blockRows, blockCols) ==
  /\ startRow >= 0
  /\ blockRows >= 0
  /\ startRow <= kMaxN - blockRows
  /\ startCol >= 0
  /\ blockCols >= 0
  /\ startCol <= kMaxN - blockCols

\* Eigen's range condition of base_coefficients_(row, col).
CoeffInRange(row, col) ==
  row >= 0 /\ row < kMaxN /\ col >= 0 /\ col < kMaxN

\* -------------------------------------------------------------- outcomes

\* The builds: Eigen's assertions compiled in ("debug") or out ("release").
Builds == {"debug", "release"}

\* What an out-of-range read may yield where no assertion stops it.
Garbage == {0, 1}

Ok(v) == [status |-> "ok", value |-> v]

\* A failed glog CHECK: the process aborts, no result.
CheckFailed == [status |-> "check_failed", value |-> <<>>]

\* A failed Eigen assertion: the process aborts, no result.
EigenAssert == [status |-> "eigen_assert", value |-> <<>>]

\* The call went on past an out-of-range access.
Undefined(v) == [status |-> "undefined", value |-> v]

Aborts(out) == out.status \in {"check_failed", "eigen_assert"}

\* coefficients_[j] with the source's 0-based index.
At(c, j) == c[j + 1]

Zeros(n) == [i \in 1..n |-> 0]

\* An entry of the table as a read finds it: g where the index is outside
\* the table and no assertion stopped the read.
Cell(row, col, g) ==
  IF CoeffInRange(row, col) THEN base_coefficients_[row][col] ELSE g

\* ------------------------------------------------------- getCoefficients
\* Every operation below takes the build bld and the value g that reads
\* outside the table yield in a build without assertions, and gives the
\* call's outcome.  An access out of range is undefined behaviour: the
\* actions choose bld and g at each call.

\* The check off by one: CHECK_LE(derivative, N_ + 1).
DerivativeAllowedLoose(derivative, N) == derivative <= N + 1

\* CHECK_LE(derivative, N_)
DerivativeAllowed(derivative, N) == derivative <= N

\* result.head(N_ - derivative) = coefficients_.tail(N_ - derivative)
\*     .cwiseProduct(base_coefficients_.block(derivative, derivative, 1,
\*                                            N_ - derivative).transpose())
\* over a zeroed result of size N_.
DerivativeCoefficients(N, c, derivative, g) ==
  [i \in 1..N |->
     IF i <= N - derivative
       THEN At(c, (i - 1) + derivative)
            * Cell(derivative, (i - 1) + derivative, g)
       ELSE 0]

\* Eigen::VectorXd getCoefficients(int derivative)
getCoefficients(N, c, derivative, bld, g) ==
  IF ~DerivativeAllowed(derivative, N) THEN CheckFailed
  ELSE IF derivative = 0 THEN Ok(c)
  ELSE LET n == N - derivative
           inRange == /\ n >= 0
                      /\ n <= N
                      /\ BlockInRange(derivative, derivative, 1, n)
       IN IF inRange THEN Ok(DerivativeCoefficients(N, c, derivative, g))
          ELSE IF bld = "debug" THEN EigenAssert
          ELSE IF n = 0 THEN Ok(Zeros(N))
          ELSE IF n > N THEN Undefined([i \in 1..N |-> g])
          ELSE Undefined(DerivativeCoefficients(N, c, derivative, g))

\* -------------------------------------------------- evaluate, vector form

\* The step without its acc *= t.
AccStepUnscaled(acc, t, rowj, cj) == NumAdd(acc, NumOf(rowj * cj))

\* acc *= t; acc += row[j] * coefficients_[j];
AccStep(acc, t, rowj, cj) == NumAdd(NumMul(acc, t), NumOf(rowj * cj))

\* for (int j = tmp - 1; j >= i; --j) of the vector form.
RECURSIVE AccLoop(_, _, _, _, _, _)
AccLoop(c, t, i, j, acc, g) ==
  IF j < i THEN acc
  ELSE AccLoop(c, t, i, j - 1, AccStep(acc, t, Cell(i, j, g), At(c, j)), g)

\* One pass of the outer loop: the value written to (*result)[i].
DerivativeSlot(N, c, t, i, g) ==
  LET tmp == N - 1
  IN AccLoop(c, t, i, tmp - 1, NumOf(Cell(i, tmp, g) * At(c, tmp)), g)

\* CHECK_LE(result->size(), N_)
SlotsAllowed(M, N) == M <= N

\* void evaluate(double t, Eigen::VectorXd* result), result of size M.
evaluateInto(N, c, t, M, bld, g) ==
  IF ~SlotsAllowed(M, N) THEN CheckFailed
  ELSE IF \A i \in 0..(M - 1) : BlockInRange(i, 0, 1, N)
    THEN Ok([i \in 1..M |-> DerivativeSlot(N, c, t, i - 1, g)])
  ELSE IF bld = "debug" THEN EigenAssert
  ELSE Undefined([i \in 1..M |-> DerivativeSlot(N, c, t, i - 1, g)])

\* -------------------------------------------------- evaluate, scalar form

\* The step without its result *= t.
ResultStepUnscaled(result, t, rowj, cj) == NumAdd(result, NumOf(rowj * cj))

\* result *= t; result += row[j] * coefficients_[j];
ResultStep(result, t, rowj, cj) == NumAdd(NumMul(result, t), NumOf(rowj * cj))

\* for (int j = tmp - 1; j >= derivative; --j) of the scalar form.
RECURSIVE ResultLoop(_, _, _, _, _, _)
ResultLoop(c, t, derivative, j, result, g) ==
  IF j < derivative THEN result
  ELSE ResultLoop(c, t, derivative, j - 1,
                  ResultStep(result, t, Cell(derivative, j, g), At(c, j)), g)

\* if (derivative >= N_) return 0.0;
BeyondOrder(derivative, N) == derivative >= N

\* The value the recurrence of the scalar form leaves in result.
DerivativeValue(N, c, t, derivative, g) ==
  LET tmp == N - 1
  IN ResultLoop(c, t, derivative, tmp - 1,
                NumOf(Cell(derivative, tmp, g) * At(c, tmp)), g)

\* double evaluate(double t, int derivative)
evaluate(N, c, t, derivative, bld, g) ==
  IF BeyondOrder(derivative, N) THEN Ok(NumOf(0))
  ELSE IF BlockInRange(derivative, 0, 1, N)
    THEN Ok(DerivativeValue(N, c, t, derivative, g))
  ELSE IF bld = "debug" THEN EigenAssert
  ELSE IF derivative < 0 THEN Undefined(NumOf(g))
  ELSE Undefined(DerivativeValue(N, c, t, derivative, g))

\* ---------------------------------------------------- baseCoeffsWithTime

\* (*coeffs)[derivative] = base_coefficients_(derivative, derivative);
FirstCoefficient(derivative, g) == NumOf(Cell(derivative, derivative, g))

\* The power left as it is.
NextPowerStuck(t_power, t) == t_power

\* t_power = t_power * t;
NextPower(t_power, t) == NumMul(t_power, t)

\* for (int j = derivative + 1; j < N; j++): coeffs holds the entries
\* 0..j-1 so far.
RECURSIVE PowerLoop(_, _, _, _, _, _, _)
PowerLoop(N, derivative, t, j, t_power, coeffs, g) ==
  IF j >= N THEN coeffs
  ELSE PowerLoop(N, derivative, t, j + 1, NextPower(t_power, t),
                 Append(coeffs, NumMul(NumOf(Cell(derivative, j, g)), t_power)),
                 g)

\* The early return taken only for t == 0.
TreatedAsZeroExact(t) == t = NumOf(0)

\* if (std::abs(t) < std::numeric_limits<double>::epsilon()) return;
TreatedAsZero(t) == BelowEpsilon(t)

\* The vector the call leaves in *coeffs.
TimeCoefficients(N, derivative, t, g) ==
  LET head == [j \in 1..(derivative + 1) |->
                 IF j = derivative + 1 THEN FirstCoefficient(derivative, g)
                 ELSE NumOf(0)]
  IN IF TreatedAsZero(t)
       THEN head \o [j \in 1..(N - derivative - 1) |-> NumOf(0)]
       ELSE PowerLoop(N, derivative, t, derivative + 1, t, head, g)

\* static void baseCoeffsWithTime(int N, int derivative, double t,
\*                                Eigen::VectorXd* coeffs)
baseCoeffsWithTime(N, derivative, t, bld, g) ==
  IF ~(derivative < N) THEN CheckFailed
  ELSE IF ~(derivative >= 0) THEN CheckFailed
  ELSE LET last == IF TreatedAsZero(t) THEN derivative ELSE N - 1
       IN IF CoeffInRange(derivative, last)
            THEN Ok(TimeCoefficients(N, derivative, t, g))
          ELSE IF bld = "debug" THEN EigenAssert
          ELSE Undefined(TimeCoefficients(N, derivative, t, g))

\* ------------------------------------------------------------- operator==

\* coefficients_ == rhs.coefficients_: Eigen compares vectors of one size.
equals(c, rhs, bld, g) ==
  IF Len(c) = Len(rhs) THEN Ok(c = rhs)
  ELSE IF bld = "debug" THEN EigenAssert
  ELSE Undefined(g = 1)

\* ------------------------------------------------------------ findMinMax

\* A root counts as real: its imaginary part is within the tolerance.
RealWithinTolerance(root) == BelowEpsilon(root.im)

\* A root is admissible: real, with its real part in [t_1, t_2].
Admissible(root, t_1, t_2) ==
  /\ RealWithinTolerance(root)
  /\ NumLeq(t_1, root.re)
  /\ NumLeq(root.re, t_2)

RECURSIVE AdmissibleTimes(_, _, _)
AdmissibleTimes(roots, t_1, t_2) ==
  IF roots = <<>> THEN <<>>
  ELSE (IF Admissible(Head(roots), t_1, t_2) THEN <<Head(roots).re>> ELSE <<>>)
       \o AdmissibleTimes(Tail(roots), t_1, t_2)

\* The candidate times: the two ends, then the admissible roots in order.
Candidates(t_1, t_2, roots) == <<t_1, t_2>> \o AdmissibleTimes(roots, t_1, t_2)

\* The least of values[1..], the last one on ties.
RECURSIVE ArgMinLast(_, _, _)
ArgMinLast(values, k, best) ==
  IF k > Len(values) THEN best
  ELSE ArgMinLast(values, k + 1,
                  IF NumLeq(values[k], values[best]) THEN k ELSE best)

\* The index of the least of values[1..], the first one on ties.
RECURSIVE ArgMin(_, _, _)
ArgMin(values, k, best) ==
  IF k > Len(values) THEN best
  ELSE ArgMin(values, k + 1,
              IF NumLess(values[k], values[best]) THEN k ELSE best)

\* The index of the greatest of values[1..], the first one on ties.
RECURSIVE ArgMax(_, _, _)
ArgMax(values, k, best) ==
  IF k > Len(values) THEN best
  ELSE ArgMax(values, k + 1,
              IF NumLess(values[best], values[k]) THEN k ELSE best)

NoExtremum ==
  [success |-> FALSE, t_min |-> <<>>, t_max |-> <<>>, min |-> <<>>, max |-> <<>>]

\* bool findMinMax(t_1, t_2, order_to_evaluate, roots_of_derivative,
\*                 t_min, t_max, min, max)
findMinMax(N, c, t_1, t_2, order, roots, bld, g) ==
  IF NumLess(t_2, t_1) \/ order < 0 THEN Ok(NoExtremum)
  ELSE LET cand == Candidates(t_1, t_2, roots)
           outs == [k \in 1..Len(cand) |-> evaluate(N, c, cand[k], order, bld, g)]
           values == [k \in 1..Len(cand) |-> outs[k].value]
           kmin == ArgMin(values, 2, 1)
           kmax == ArgMax(values, 2, 1)
           found == [success |-> TRUE,
                     t_min |-> cand[kmin], t_max |-> cand[kmax],
                     min |-> values[kmin], max |-> values[kmax]]
       IN IF outs[1].status = "ok" THEN Ok(found)
          ELSE IF outs[1].status = "undefined" THEN Undefined(found)
          ELSE outs[1]

\* The inline overload without t_min and t_max: it passes two locals and
\* hands back what the full form returns.
findMinMaxValues(N, c, t_1, t_2, order, roots, bld, g) ==
  LET full == findMinMax(N, c, t_1, t_2, order, roots, bld, g)
  IN IF Aborts(full) THEN full
     ELSE [status |-> full.status,
           value |-> [success |-> full.value.success,
                      min |-> full.value.min, max |-> full.value.max]]

\* findRootsJenkinsTraub(coefficients): the root solver, of which only the
\* interface is known: some roots, no more than the degree.
findRootsJenkinsTraub(c, rootSeqs) ==
  {r \in rootSeqs : Len(r) <= Max(Len(c) - 1, 0)}

\* ------------------------------------------------------------------ state

VARIABLES
  pc,             \* "new", "idle", "returned" (a result is held), "aborted"
  N_,             \* int N_
  coefficients_,  \* Eigen::VectorXd coefficients_
  call            \* the last call: its operation, arguments and outcome

vars == <<pc, N_, coefficients_, call>>

NoCall == [op |-> "none", args |-> <<>>, out |-> Ok(<<>>)]

\* The polynomial exists: its constructor returned and nothing aborted.
Alive == pc \in {"idle", "returned"}

\* The outcomes a call can have: where Eigen's assertions stop nothing, no
\* access is out of range and the call has one outcome whatever the build;
\* otherwise one outcome per build and value read.
Outcomes(Op(_, _)) ==
  LET checked == Op("debug", 0)
  IN IF checked = EigenAssert
       THEN {Op(bld, g) : bld \in Builds, g \in Garbage}
       ELSE {checked}

\* A call ends: its record is kept, and an aborted process stays aborted.
Finish(op, args, out) ==
  /\ call' = [op |-> op, args |-> args, out |-> out]
  /\ pc' = IF Aborts(out) THEN "aborted" ELSE "returned"

\* ----------------------------------------------------------------- inputs

Orders == 1..(kMaxN + 1)

Derivatives == -1..(kMaxN + 2)

Coeffs == (0 - MaxCoeff)..MaxCoeff

\* Coefficient vectors of length n: the multiples of the unit vectors (every
\* operation is linear in the coefficients) and the vectors of one value.
CoeffVectors(n) ==
  {[i \in 1..n |-> IF i = k THEN a ELSE 0] : k \in 1..n, a \in Coeffs}
    \cup {[i \in 1..n |-> a] : a \in Coeffs}

\* Coefficient vectors of length n holding one value.
PlainVectors(n) ==
  IF n < 0 THEN {} ELSE {[i \in 1..n |-> a] : a \in Coeffs}

\* The whole-number times and two times below machine epsilon.
Times == {NumOf(n) : n \in (0 - MaxT)..MaxT} \cup {Tiny(1), Tiny(-1)}

\* ---------------------------------------------------------------- actions

\* Polynomial(int N)
Construct(N) ==
  /\ pc = "new"
  /\ N_' = N
  /\ coefficients_' = Zeros(N)
  /\ Finish("Polynomial", [N |-> N], Ok(<<>>))

\* Polynomial(int N, const Eigen::VectorXd& coeffs): the members are
\* initialised, then CHECK_EQ(N_, coeffs.size()).
ConstructFrom(N, coeffs) ==
  /\ pc = "new"
  /\ N_' = N
  /\ coefficients_' = coeffs
  /\ Finish("Polynomial", [N |-> N, coeffs |-> coeffs],
            IF N = Len(coeffs) THEN Ok(<<>>) ELSE CheckFailed)

\* void setCoefficients(const Eigen::VectorXd& coeffs)
SetCoefficients(coeffs) ==
  /\ pc = "idle"
  /\ IF N_ = Len(coeffs)
       THEN /\ coefficients_' = coeffs
            /\ Finish("setCoefficients", [coeffs |-> coeffs], Ok(<<>>))
       ELSE /\ coefficients_' = coefficients_
            /\ Finish("setCoefficients", [coeffs |-> coeffs], CheckFailed)
  /\ UNCHANGED N_

\* The implicit copy assignment: *this = rhs copies N_ and coefficients_.
Assign(rhsN, rhsCoeffs) ==
  /\ pc = "idle"
  /\ N_' = rhsN
  /\ coefficients_' = rhsCoeffs
  /\ Finish("operator=", [N |-> rhsN, coeffs |-> rhsCoeffs], Ok(<<>>))

\* operator==(rhs)
Equals(rhsCoeffs) ==
  /\ pc = "idle"
  /\ \E out \in Outcomes(LAMBDA bld, g :
                          equals(coefficients_, rhsCoeffs, bld, g)) :
       Finish("operator==", [coeffs |-> rhsCoeffs], out)
  /\ UNCHANGED <<N_, coefficients_>>

GetCoefficients(derivative) ==
  /\ pc = "idle"
  /\ \E out \in Outcomes(LAMBDA bld, g :
                          getCoefficients(N_, coefficients_, derivative, bld, g)) :
       Finish("getCoefficients", [derivative |-> derivative], out)
  /\ UNCHANGED <<N_, coefficients_>>

EvaluateInto(t, M) ==
  /\ pc = "idle"
  /\ \E out \in Outcomes(LAMBDA bld, g :
                          evaluateInto(N_, coefficients_, t, M, bld, g)) :
       Finish("evaluateInto", [t |-> t, M |-> M], out)
  /\ UNCHANGED <<N_, coefficients_>>

Evaluate(t, derivative) ==
  /\ pc = "idle"
  /\ \E out \in Outcomes(LAMBDA bld, g :
                          evaluate(N_, coefficients_, t, derivative, bld, g)) :
       Finish("evaluate", [t |-> t, derivative |-> derivative], out)
  /\ UNCHANGED <<N_, coefficients_>>

\* The static function, called with order N.
BaseCoeffsWithTime(N, derivative, t) ==
  /\ pc = "idle"
  /\ \E out \in Outcomes(LAMBDA bld, g :
                          baseCoeffsWithTime(N, derivative, t, bld, g)) :
       Finish("baseCoeffsWithTime", [N |-> N, derivative |-> derivative, t |-> t], out)
  /\ UNCHANGED <<N_, coefficients_>>

\* The caller drops the result it holds.
Return ==
  /\ pc = "returned"
  /\ pc' = "idle"
  /\ call' = NoCall
  /\ UNCHANGED <<N_, coefficients_>>

\* Eigen::VectorXcd computeRoots()
ComputeRoots(rootSeqs) ==
  /\ pc = "idle"
  /\ \E r \in findRootsJenkinsTraub(coefficients_, rootSeqs) :
       Finish("computeRoots", <<>>, Ok(r))
  /\ UNCHANGED <<N_, coefficients_>>

FindMinMax(t_1, t_2, order, roots) ==
  /\ pc = "idle"
  /\ \E out \in Outcomes(LAMBDA bld, g :
                          findMinMax(N_, coefficients_, t_1, t_2, order, roots, bld, g)) :
       Finish("findMinMax",
              [t_1 |-> t_1, t_2 |-> t_2, order |-> order, roots |-> roots], out)
  /\ UNCHANGED <<N_, coefficients_>>

FindMinMaxValues(t_1, t_2, order, roots) ==
  /\ pc = "idle"
  /\ \E out \in Outcomes(LAMBDA bld, g :
                          findMinMaxValues(N_, coefficients_, t_1, t_2, order, roots, bld, g)) :
       Finish("findMinMaxValues",
              [t_1 |-> t_1, t_2 |-> t_2, order |-> order, roots |-> roots], out)
  /\ UNCHANGED <<N_, coefficients_>>

\* The overloads that compute the roots themselves.
FindMinMaxComputingRoots(t_1, t_2, order, rootSeqs) ==
  /\ pc = "idle"
  /\ \E roots \in findRootsJenkinsTraub(coefficients_, rootSeqs) :
       \E out \in Outcomes(LAMBDA bld, g :
                            findMinMax(N_, coefficients_, t_1, t_2, order, roots, bld, g)) :
         Finish("findMinMaxComputingRoots",
                [t_1 |-> t_1, t_2 |-> t_2, order |-> order, roots |-> roots], out)
  /\ UNCHANGED <<N_, coefficients_>>

\* --------------------------------------------- the life of one polynomial

\* The times the calls of Spec are made at: 0, 1 and one below epsilon.
FewTimes == {NumOf(0), NumOf(1), Tiny(1)}

FewRoots == {<<>>, <<[re |-> NumOf(1), im |-> NumOf(0)]>>}

Init ==
  /\ pc = "new"
  /\ N_ = 0
  /\ coefficients_ = <<>>
  /\ call = NoCall

Next ==
  \/ \E N \in Orders : Construct(N)
  \/ \E N \in Orders, n \in -1..1 :
       \E coeffs \in PlainVectors(N + n) : ConstructFrom(N, coeffs)
  \/ \E n \in -1..1 :
       \E coeffs \in PlainVectors(N_ + n) : SetCoefficients(coeffs)
  \/ \E N \in Orders : \E coeffs \in PlainVectors(N) : Assign(N, coeffs)
  \/ \E n \in -1..0 : \E coeffs \in PlainVectors(N_ + n) : Equals(coeffs)
  \/ \E d \in Derivatives : GetCoefficients(d)
  \/ \E t \in FewTimes, M \in 0..(N_ + 1) : EvaluateInto(t, M)
  \/ \E t \in FewTimes, d \in Derivatives : Evaluate(t, d)
  \/ \E N \in Orders, d \in Derivatives, t \in FewTimes :
       BaseCoeffsWithTime(N, d, t)
  \/ ComputeRoots(FewRoots)
  \/ \E t_1 \in FewTimes, t_2 \in FewTimes, order \in {-1, 0, N_}, roots \in FewRoots :
       FindMinMax(t_1, t_2, order, roots)
  \/ \E t_1 \in FewTimes, t_2 \in FewTimes, order \in {-1, 0, N_}, roots \in FewRoots :
       FindMinMaxValues(t_1, t_2, order, roots)
  \/ \E t_1 \in FewTimes, t_2 \in FewTimes, order \in {-1, 0, N_} :
       FindMinMaxComputingRoots(t_1, t_2, order, FewRoots)
  \/ Return

Spec == Init /\ [][Next]_vars

\* ------------------------------------------------- evaluation, all inputs

EvalInit ==
  /\ pc = "idle"
  /\ N_ \in Orders
  /\ coefficients_ \in CoeffVectors(N_)
  /\ call = NoCall

\* getCoefficients, every derivative.
GetCoefficientsNext ==
  \/ \E d \in Derivatives : GetCoefficients(d)
  \/ Return

GetCoefficientsSpec == EvalInit /\ [][GetCoefficientsNext]_vars

\* The vector form of evaluate, every time and every number of slots.
EvaluateIntoNext ==
  \/ \E t \in Times, M \in 0..(N_ + 1) : EvaluateInto(t, M)
  \/ Return

EvaluateIntoSpec == EvalInit /\ [][EvaluateIntoNext]_vars

\* The scalar form of evaluate, every time and every derivative.
EvaluateNext ==
  \/ \E t \in Times, d \in Derivatives : Evaluate(t, d)
  \/ Return

EvaluateSpec == EvalInit /\ [][EvaluateNext]_vars

\* baseCoeffsWithTime for the polynomial's order, every time and derivative.
BaseCoeffsNext ==
  \/ \E d \in Derivatives, t \in Times : BaseCoeffsWithTime(N_, d, t)
  \/ Return

BaseCoeffsSpec == EvalInit /\ [][BaseCoeffsNext]_vars

\* ---------------------------------------------- extremum search, all inputs

\* Interval ends and real parts of roots.
RootTimes == {NumOf(-1), NumOf(0), NumOf(1)}

\* Roots: two real ones, one that is real within the tolerance, and one
\* that is not real.
Roots ==
  {[re |-> NumOf(0), im |-> NumOf(0)], [re |-> NumOf(1), im |-> NumOf(0)],
   [re |-> NumOf(0), im |-> Tiny(1)], [re |-> NumOf(0), im |-> NumOf(1)]}

RECURSIVE SeqsUpTo(_, _)
SeqsUpTo(S, n) ==
  IF n = 0 THEN {<<>>}
  ELSE LET shorter == SeqsUpTo(S, n - 1)
       IN shorter \cup {Append(q, x) : q \in shorter, x \in S}

RootSeqs == SeqsUpTo(Roots, MaxRoots)

MinMaxInit ==
  /\ pc = "idle"
  /\ N_ \in 1..MaxMinMaxN
  /\ coefficients_ \in [1..N_ -> {-1, 0, 1}]
  /\ call = NoCall

MinMaxNext ==
  \/ \E t_1 \in RootTimes, t_2 \in RootTimes, order \in -1..N_, roots \in RootSeqs :
       FindMinMax(t_1, t_2, order, roots)
  \/ \E t_1 \in RootTimes, t_2 \in RootTimes, order \in -1..N_, roots \in FewRoots :
       FindMinMaxValues(t_1, t_2, order, roots)
  \/ Return

MinMaxSpec == MinMaxInit /\ [][MinMaxNext]_vars

\* ----------------------------------------------------------------- claims

RECURSIVE Factorial(_)
Factorial(n) == IF n <= 0 THEN 1 ELSE n * Factorial(n - 1)

RECURSIVE NumPow(_, _)
NumPow(t, k) == IF k = 0 THEN NumOf(1) ELSE NumMul(t, NumPow(t, k - 1))

\* The sum over j in [from, N-1] of c[j] * j!/(j-d)! * t^(j-d).
RECURSIVE LiteralSum(_, _, _, _, _)
LiteralSum(N, c, t, d, from) ==
  IF from > N - 1 THEN NumOf(0)
  ELSE NumAdd(NumMul(NumOf(At(c, from) * (Factorial(from) \div Factorial(from - d))),
                     NumPow(t, from - d)),
              LiteralSum(N, c, t, d, from + 1))

\* The d-th derivative of the stored polynomial, differentiated term by
\* term, at t.
LiteralDerivativeAt(N, c, t, d) == LiteralSum(N, c, t, d, d)

\* The orders the Basis Table supports.
Supported(N) == N >= 1 /\ N <= kMaxN

\* C1: for 1 <= N <= kMaxN and every derivative d >= 0, the scalar
\* evaluate(t, d) returns the value at t of the stored polynomial
\* differentiated d times, and exactly 0 when d >= N.
C1_EvaluateIsLiteralDerivative ==
  (call.op = "evaluate" /\ Supported(N_) /\ call.args.derivative >= 0)
    => call.out =
         Ok(IF call.args.derivative >= N_ THEN NumOf(0)
            ELSE LiteralDerivativeAt(N_, coefficients_, call.args.t,
                                     call.args.derivative))

\* A third derivative of a polynomial of the greatest order, at t = 2, that
\* is not zero.
C1_Witness ==
  /\ call.op = "evaluate"
  /\ N_ = kMaxN
  /\ call.args.derivative = 3
  /\ call.args.t = NumOf(2)
  /\ call.out.status = "ok"
  /\ call.out.value # NumOf(0)

\* The sequence getCoefficients(d) is specified to return.
ExpectedDerivativeCoefficients(N, c, d) ==
  [i \in 1..N |->
     IF i <= N - d THEN c[i + d] * FallingFactorial((i - 1) + d, d) ELSE 0]

\* C2: for 1 <= N <= kMaxN and 0 <= d <= N, getCoefficients(d) returns the
\* length-N sequence result[i] = coefficients[i+d] * B[d][i+d], zero from
\* N-d on; the stored coefficients for d = 0 and all zeros for d = N,
\* N = kMaxN included.
C2_GetCoefficientsUpToOrder ==
  (/\ call.op = "getCoefficients"
   /\ Supported(N_)
   /\ call.args.derivative >= 0
   /\ call.args.derivative <= N_)
    => call.out =
         Ok(ExpectedDerivativeCoefficients(N_, coefficients_, call.args.derivative))

\* C3: for a polynomial of a supported order and M <= N requested slots,
\* the vector form of evaluate writes in slot i what the scalar form
\* returns for derivative i.
C3_VectorFormMatchesScalarForm ==
  (call.op = "evaluateInto" /\ N_ <= kMaxN /\ call.args.M <= N_)
    => /\ call.out.status = "ok"
       /\ Len(call.out.value) = call.args.M
       /\ \A i \in 0..(call.args.M - 1) :
            Outcomes(LAMBDA bld, g :
                       evaluate(N_, coefficients_, call.args.t, i, bld, g))
              = {Ok(call.out.value[i + 1])}

\* All slots of a polynomial of the greatest order are filled at t = 2,
\* the first derivative not zero.
C3_Witness ==
  /\ call.op = "evaluateInto"
  /\ N_ = kMaxN
  /\ call.args.M = N_
  /\ call.args.t = NumOf(2)
  /\ call.out.status = "ok"
  /\ call.out.value[2] # NumOf(0)

\* C4 as stated: for every derivative d >= N, getCoefficients(d) returns
\* the all-zero sequence.
C4_ZeroBeyondOrder ==
  (call.op = "getCoefficients" /\ call.args.derivative >= N_)
    => call.out = Ok(Zeros(N_))

\* C4, amended: getCoefficients(N) returns the all-zero sequence of length
\* N whenever it returns (a build with Eigen's assertions aborts it for
\* N >= kMaxN), and getCoefficients(d) for d > N fails its CHECK and
\* returns nothing.
C4_ZeroAtOrderFailsBeyond ==
  (call.op = "getCoefficients" /\ call.args.derivative >= N_)
    => IF call.args.derivative > N_
         THEN call.out = CheckFailed
         ELSE \/ call.out = Ok(Zeros(N_))
              \/ (N_ >= kMaxN /\ call.out = EigenAssert)

\* getCoefficients(N) returned for a polynomial with a coefficient set.
C4_Witness ==
  /\ call.op = "getCoefficients"
  /\ N_ >= 2
  /\ call.args.derivative = N_
  /\ coefficients_ # Zeros(N_)
  /\ call.out = Ok(Zeros(N_))

\* C5: once constructed, N() is the order given at construction whatever
\* operation is applied, the coefficient sequence has length N(), and a
\* setCoefficients call with another length fails and stores nothing.
C5_OrderFixedAtConstruction ==
  /\ [](Alive => Len(coefficients_) = N_)
  /\ [][(Alive /\ Alive') => N_' = N_]_vars
  /\ [][(pc = "idle" /\ pc' = "aborted") => coefficients_' = coefficients_]_vars

\* C6: every operation that accepts an order fails fast for N > kMaxN, so
\* that no call reads the Basis Table outside [0, kMaxN).
C6_OrderValidatedAgainstMax ==
  /\ Alive => N_ <= kMaxN
  /\ (call.op = "baseCoeffsWithTime" /\ call.args.N > kMaxN) => Aborts(call.out)
  /\ call.op \in {"getCoefficients", "evaluate", "evaluateInto", "baseCoeffsWithTime"}
       => call.out.status \in {"ok", "check_failed"}

\* C7: getCoefficients(derivative) fails fast, returning nothing, for
\* derivative > N and for derivative < 0.
C7_DerivativeRangeChecked ==
  (/\ call.op = "getCoefficients"
   /\ (call.args.derivative > N_ \/ call.args.derivative < 0))
    => Aborts(call.out)

\* The sequence with B[d][d] at index d and 0 elsewhere.
SingleEntry(N, d) ==
  [j \in 1..N |-> IF j = d + 1 THEN NumOf(FallingFactorial(d, d)) ELSE NumOf(0)]

\* C8: for 0 <= derivative < N and t = 0 or |t| below machine epsilon,
\* baseCoeffsWithTime(N, derivative, t) returns a length-N sequence whose
\* one nonzero entry is B[derivative][derivative], at index derivative
\* (for every derivative the table has a row of).
C8_SingleEntryAtZero ==
  (/\ call.op = "baseCoeffsWithTime"
   /\ call.args.derivative >= 0
   /\ call.args.derivative < call.args.N
   /\ call.args.derivative < kMaxN
   /\ BelowEpsilon(call.args.t))
    => /\ call.out = Ok(SingleEntry(call.args.N, call.args.derivative))
       /\ call.out.value[call.args.derivative + 1] # NumOf(0)

\* The call is made at a time that is not 0 and is below epsilon.
C8_Witness ==
  /\ call.op = "baseCoeffsWithTime"
  /\ call.args.N = 5
  /\ call.args.derivative = 3
  /\ call.args.t = Tiny(1)
  /\ call.out.status = "ok"

\* What claim C9 calls the candidate times.
ClaimedCandidates(t_1, t_2, roots) ==
  <<t_1, t_2>>
    \o LET admissible == SelectSeq(roots, LAMBDA r : Admissible(r, t_1, t_2))
       IN [k \in 1..Len(admissible) |-> admissible[k].re]

\* evaluate(t, order) of the polynomial of the state.
ValueAt(t, order) == evaluate(N_, coefficients_, t, order, "debug", 0).value

\* C9: for t1 <= t2 and 0 <= order < N, findMinMax succeeds; tMin and tMax
\* are candidate times, min and max are evaluate(., order) there and bound
\* evaluate(c, order) of every candidate c, the first candidate with the
\* extremal value winning; t1 = t2 gives min = max = evaluate(t1, order).
C9_ExtremaOverCandidates ==
  (/\ call.op = "findMinMax"
   /\ NumLeq(call.args.t_1, call.args.t_2)
   /\ call.args.order >= 0
   /\ call.args.order < N_
   /\ N_ <= kMaxN)
    => LET cand == ClaimedCandidates(call.args.t_1, call.args.t_2, call.args.roots)
           order == call.args.order
           res == call.out.value
       IN /\ call.out.status = "ok"
          /\ res.success
          /\ res.min = ValueAt(res.t_min, order)
          /\ res.max = ValueAt(res.t_max, order)
          /\ \A k \in 1..Len(cand) :
               /\ NumLeq(res.min, ValueAt(cand[k], order))
               /\ NumLeq(ValueAt(cand[k], order), res.max)
          /\ \E k \in 1..Len(cand) :
               /\ cand[k] = res.t_min
               /\ \A h \in 1..(k - 1) : ValueAt(cand[h], order) # res.min
          /\ \E k \in 1..Len(cand) :
               /\ cand[k] = res.t_max
               /\ \A h \in 1..(k - 1) : ValueAt(cand[h], order) # res.max
          /\ (call.args.t_1 = call.args.t_2
                => /\ res.min = ValueAt(call.args.t_1, order)
                   /\ res.max = res.min)

\* A search where an admissible root, the third candidate, alone holds the
\* minimum.
C9_Witness ==
  /\ call.op = "findMinMax"
  /\ call.out.status = "ok"
  /\ call.out.value.success
  /\ call.args.order = 0
  /\ Len(call.args.roots) >= 1
  /\ NumLess(call.args.t_1, call.out.value.t_min)
  /\ NumLess(call.out.value.t_min, call.args.t_2)
  /\ NumLess(call.out.value.min, call.out.value.max)

RECURSIVE DotFrom(_, _, _)
DotFrom(row, c, j) ==
  IF j > Len(row) THEN NumOf(0)
  ELSE NumAdd(NumMul(row[j], NumOf(c[j])), DotFrom(row, c, j + 1))

\* The dot product of a row of doubles with the coefficients.
Dot(row, c) == DotFrom(row, c, 1)

\* Entry j = B[d][j] * t^(j-d) for j >= d and 0 for j < d.
LinearForm(N, d, t) ==
  [j \in 1..N |->
     IF j - 1 < d THEN NumOf(0)
     ELSE NumMul(NumOf(FallingFactorial(j - 1, d)), NumPow(t, (j - 1) - d))]

\* C10 as stated: for every t and 0 <= derivative < N the dot product of
\* baseCoeffsWithTime(N, derivative, t) with the coefficients of p is
\* p.evaluate(t, derivative), the result being B[d][j] * t^(j-d) at j >= d.
C10_DotProductIsEvaluate ==
  (/\ call.op = "baseCoeffsWithTime"
   /\ call.args.N = N_
   /\ N_ <= kMaxN
   /\ call.args.derivative >= 0
   /\ call.args.derivative < N_)
    => /\ call.out = Ok(LinearForm(N_, call.args.derivative, call.args.t))
       /\ Dot(call.out.value, coefficients_)
            = ValueAt(call.args.t, call.args.derivative)

\* The time baseCoeffsWithTime works with: 0 for a time below epsilon.
EffectiveTime(t) == IF BelowEpsilon(t) THEN NumOf(0) ELSE t

\* C10, amended: the same with t = 0 or |t| >= epsilon; for a t that is not
\* 0 and is below epsilon the result is that of t = 0, its dot product
\* with the coefficients being p.evaluate(0, derivative).
C10_DotProductIsEvaluateAtEffectiveTime ==
  (/\ call.op = "baseCoeffsWithTime"
   /\ call.args.N = N_
   /\ N_ <= kMaxN
   /\ call.args.derivative >= 0
   /\ call.args.derivative < N_)
    => /\ call.out = Ok(LinearForm(N_, call.args.derivative,
                                   EffectiveTime(call.args.t)))
       /\ Dot(call.out.value, coefficients_)
            = ValueAt(EffectiveTime(call.args.t), call.args.derivative)

\* A first derivative at t = 2 whose value is not zero.
C10_Witness ==
  /\ call.op = "baseCoeffsWithTime"
  /\ N_ = 4
  /\ call.args.derivative = 1
  /\ call.args.t = NumOf(2)
  /\ call.out.status = "ok"
  /\ Dot(call.out.value, coefficients_) # NumOf(0)

====
